---- MODULE Spec2Model ----
(***************************************************************************)
(* Model of vamdclib/request.py: the Request session (setnode, setbaseurl, *)
(* setquery, dorequest, doheadrequest, getlastmodified) and the helper     *)
(* do_species_data_request.                                                *)
(*                                                                         *)
(* Python values are tagged records: None, an attribute that was never     *)
(* assigned (Unset), strings (sequences of tokens), dictionaries, ...      *)
(* A method is an operator from a session to the SET of its possible       *)
(* results [self, trace, out]: the session it leaves, the events it        *)
(* produced in order, and whether it returned a value or raised.  The      *)
(* node's answers and the transport's failures are the nondeterminism.     *)
(* The choice of connection class (HTTP, HTTPS, unverified HTTPS) does not *)
(* influence any branch of the methods and is not modelled.                *)
(***************************************************************************)
EXTENDS Integers, Sequences, FiniteSets, TLC

VARIABLES
    self,     \* the Request session
    trace,    \* the events of the last call, in order
    outcome,  \* the last call and what it returned or raised
    args,     \* the arguments of a call of do_species_data_request
    received  \* history: the url whose HEAD transaction filled self.headers

vars == <<self, trace, outcome, args, received>>

(* ---------------------------- bounds ---------------------------------- *)

\* longest list of headers a node returns to a HEAD transaction
MaxHeaders == 2

(* ------------------------- Python values ------------------------------ *)

None == [k |-> "None"]
Unset == [k |-> "unset"]
PyStr(s) == [k |-> "str", v |-> s]
PyInt(i) == [k |-> "int", v |-> i]
PyDict(d) == [k |-> "dict", v |-> d]
EmptyMap == [x \in {} |-> None]

Return(v) == [kind |-> "return", val |-> v]
Raise(e) == [kind |-> "raise", exc |-> e]

Res(s, t, o) == [self |-> s, trace |-> t, out |-> o]

\* settings.TIMEOUT, the default of the timeout parameters; its value lives
\* in settings.py, so it is kept symbolic
TIMEOUT == "settings.TIMEOUT"
CallerTimeout == "caller"
Timeouts == {TIMEOUT, CallerTimeout}

(* ------------------------- the environment ---------------------------- *)

Urls == {<<>>, <<"http://n">>, <<"http://n", "/">>}

\* nodes.Nodelist().findnode(name): the registry lookup
RegisteredUrl == <<"http://n", "/">>
FindNode(name) ==
    IF name = "reg"
    THEN Return([k |-> "Node", url |-> PyStr(RegisteredUrl)])
    ELSE Raise("NodeDoesNotExistError")

NodeInputs ==
    {PyStr(<<"reg">>), PyStr(<<"doesnotexist">>)}
    \cup {[k |-> "Node", url |-> PyStr(u)] : u \in Urls \ {RegisteredUrl}}
    \cup {[k |-> "object"]}

\* q.Query(Query=text): a descriptor with the default operation, language
\* and format
Query(text) ==
    [k |-> "Query", Request |-> "doQuery", Lang |-> "VSS2",
     Format |-> "XSAMS", Query |-> text]

TextA == <<"SELECT", " ", "SPECIES">>
TextB == <<"SELECT", " ", "ALL", " ", "WHERE", " ", "x", "=", "'", "1", "'">>

QueryInputs ==
    {PyStr(TextA),
     [k |-> "Query", Request |-> "doQuery", Lang |-> "VSS2",
      Format |-> "VOTABLE", Query |-> TextB],
     PyInt(7)}

Statuses == {200, 204, 400, 408}

ReasonOf(status) ==
    CASE status = 200 -> "OK"
      [] status = 204 -> "No Content"
      [] status = 400 -> "Bad Request"
      [] OTHER -> "Request Timeout"

Body == <<"<XSAMSData/>">>

GoodDate == "Tue, 03 Nov 2026 10:00:00 GMT"
BadDate == "not a date"

HeaderPairs ==
    {<<"last-modified", [str |-> GoodDate]>>,
     <<"last-modified", [str |-> BadDate]>>,
     <<"vamdc-count-species", [str |-> "5"]>>}

RECURSIVE SeqsUpTo(_, _)
SeqsUpTo(S, n) ==
    IF n = 0 THEN {<<>>}
    ELSE LET shorter == SeqsUpTo(S, n - 1)
         IN shorter \cup {Append(q, x) : q \in shorter, x \in S}

HeaderLists == SeqsUpTo(HeaderPairs, MaxHeaders)

\* what conn.endheaders() does: the connection is opened and the request
\* sent, or the socket times out
SendOutcomes == {"ok", "timeout"}

(* --------------------------- Request ---------------------------------- *)

\* Request.__init__ with node=None, query=None
NewRequest ==
    [status |-> 0, reason |-> "INIT", baseurl |-> None,
     node |-> Unset, query |-> Unset, querypath |-> Unset,
     xml |-> Unset, headers |-> Unset, lastmodified |-> Unset]

Last(s) == s[Len(s)]

\* the trailing-slash rule of setnode and setbaseurl
AddSync(url) ==
    IF Last(url) = "/" THEN url \o <<"sync?">> ELSE url \o <<"/", "sync?">>

\* an assignment that leaves the status as it is
LeaveStatus(s) == s

\* self.status = 0; self.reason = "INIT"
ResetStatus(s) == [s EXCEPT !.status = 0, !.reason = "INIT"]

setnode(s, node) ==
    LET s0 == ResetStatus(s)
        found == IF node.k = "str" THEN FindNode(Last(node.v)) ELSE Return(node)
    IN IF found.kind = "raise"
       THEN Res(s0, <<>>, found)
       ELSE LET n == found.val
                s1 == [s0 EXCEPT !.node = n]
            IN IF n.k # "Node"
               THEN Res(s1, <<>>, Return(None))
               ELSE IF n.url = None
               THEN Res(s1, <<>>, Raise("TypeError"))
               ELSE IF Len(n.url.v) = 0
               THEN Res(s1, <<>>, Return(None))
               ELSE Res([s1 EXCEPT !.baseurl = PyStr(AddSync(n.url.v))],
                        <<>>, Return(None))

setbaseurl(s, baseurl) ==
    LET s0 == [s EXCEPT !.baseurl = PyStr(baseurl)]
    IN IF Len(baseurl) = 0
       THEN Res(s0, <<>>, Raise("IndexError"))
       ELSE Res([s0 EXCEPT !.baseurl = PyStr(AddSync(baseurl))],
                <<>>, Return(None))

\* urllib quote: everything but letters, digits and "_.-~/" is
\* percent-encoded
QuoteToken(t) ==
    CASE t = " " -> "%20"
      [] t = "=" -> "%3D"
      [] t = "'" -> "%27"
      [] OTHER -> t

quote(text) == [i \in 1..Len(text) |-> QuoteToken(text[i])]

setquerypath(s) ==
    [s EXCEPT !.querypath =
        PyStr(<<"REQUEST=", s.query.Request, "&LANG=", s.query.Lang,
              "&FORMAT=", s.query.Format, "&QUERY=">> \o quote(s.query.Query))]

\* a setquery that rejects what it does not recognize and forgets the
\* query it had
setqueryStrict(s, query) ==
    LET s0 == ResetStatus(s)
    IN IF query.k = "Query"
       THEN Res(setquerypath([s0 EXCEPT !.query = query]), <<>>, Return(None))
       ELSE IF query.k = "str"
       THEN Res(setquerypath([s0 EXCEPT !.query = Query(query.v)]),
                <<>>, Return(None))
       ELSE Res([s0 EXCEPT !.query = Unset, !.querypath = Unset],
                <<>>, Raise("TypeError"))

setquery(s, query) ==
    LET s0 == ResetStatus(s)
    IN IF query.k = "Query"
       THEN Res(setquerypath([s0 EXCEPT !.query = query]), <<>>, Return(None))
       ELSE IF query.k = "str"
       THEN Res(setquerypath([s0 EXCEPT !.query = Query(query.v)]),
                <<>>, Return(None))
       ELSE Res(s0, <<>>, Return(None))

(* ---------------------------- dorequest ------------------------------- *)

Call(op, HttpMethod, timeout, parsexsams) ==
    [ev |-> "call", op |-> op, HttpMethod |-> HttpMethod,
     timeout |-> timeout, parsexsams |-> parsexsams]

\* conn.putrequest(HttpMethod, urlobj.path + "?" + urlobj.query) on a
\* connection created with the given timeout
PutRequest(HttpMethod, url, timeout) ==
    [ev |-> "putrequest", HttpMethod |-> HttpMethod, url |-> url,
     timeout |-> timeout]

SocketTimeout(phase) == [ev |-> "socket.timeout", phase |-> phase]

Response(status) == [ev |-> "response", status |-> status]

\* url = self.baseurl + self.querypath: the condition Python raises, if any
UrlError(s) ==
    IF s.querypath = Unset THEN "AttributeError"
    ELSE IF s.baseurl = None THEN "TypeError"
    ELSE "none"

\* conn.endheaders() stands outside the try statement: what it raises
\* leaves the method as it is
SendFailure(s, snd) ==
    Res(s, <<SocketTimeout("send")>>, Raise("socket." \o snd))

\* a response whose status is not recorded
KeepStatus(s, status) == s

\* self.status = res.status; self.reason = res.reason
RecordStatus(s, status) ==
    [s EXCEPT !.status = status, !.reason = ReasonOf(status)]

\* a handler that raises without recording the status
ReceiveTimeoutUnrecorded(s) ==
    Res(s, <<SocketTimeout("receive")>>, Raise("TimeOutError"))

\* except socket.timeout around conn.getresponse()
ReceiveTimeout(s) ==
    Res([s EXCEPT !.status = 408, !.reason = "Socket timeout"],
        <<SocketTimeout("receive")>>, Raise("TimeOutError"))

\* a fallback taken on the wrong status
IsFallbackOn204(status, HttpMethod) == status = 204 /\ HttpMethod = "POST"

\* the guard of the POST -> GET fallback
IsFallback(status, HttpMethod) == status = 400 /\ HttpMethod = "POST"

\* a fallback that passes the caller's timeout on
FallbackTimeoutOfCaller(timeout) == timeout

\* self.dorequest(HttpMethod='GET', parsexsams=parsexsams): the timeout of
\* the nested call is the default of the parameter
FallbackTimeout(timeout) == TIMEOUT

\* r.Result() filled from the body of a 200 response
Result(parsexsams, body) ==
    IF parsexsams
    THEN [k |-> "Result", Xml |-> body, populated |-> TRUE]
    ELSE [k |-> "Result", Content |-> body, populated |-> FALSE]

\* the session after a 200 response was read
Read200(s, parsexsams, body) ==
    IF parsexsams THEN [s EXCEPT !.xml = PyStr(body)] ELSE s

\* a result of a nested call, seen from the caller: its events follow the
\* caller's
After(prefix, res) == Res(res.self, prefix \o res.trace, res.out)

\* the end of a call of op: it returns a value or raises
Exit(op, res) ==
    Res(res.self,
        Append(res.trace, [ev |-> "exit", op |-> op, out |-> res.out]),
        res.out)

RECURSIVE dorequest(_, _, _, _)
dorequest(s, timeout, HttpMethod, parsexsams) ==
    LET call == Call("dorequest", HttpMethod, timeout, parsexsams)
        s0 == [s EXCEPT !.xml = None]
    IN IF UrlError(s0) # "none"
       THEN {Exit("dorequest", Res(s0, <<call>>, Raise(UrlError(s0))))}
       ELSE
       LET url == s0.baseurl.v \o s0.querypath.v
           sent == <<call, PutRequest(HttpMethod, url, timeout)>>
           Classify(status) ==
               LET s1 == RecordStatus(s0, status)
                   got == Append(sent, Response(status))
               IN IF status = 200
                  THEN {Res(Read200(s1, parsexsams, Body), got,
                            Return(Result(parsexsams, Body)))}
                  ELSE IF IsFallback(status, HttpMethod)
                  THEN {After(got, sub) :
                            sub \in dorequest(s1, FallbackTimeout(timeout),
                                               "GET", parsexsams)}
                  ELSE {Res(s1, got, Return(None))}
       IN {Exit("dorequest", res) : res \in
              {After(sent, SendFailure(s0, snd)) : snd \in SendOutcomes \ {"ok"}}
              \cup {After(sent, ReceiveTimeout(s0))}
              \cup UNION {Classify(status) : status \in Statuses}}

(* -------------------------- doheadrequest ----------------------------- *)

MetadataKeys ==
    {"vamdc-count-species", "vamdc-count-states", "vamdc-truncated",
     "vamdc-count-molecules", "vamdc-count-sources", "vamdc-approx-size",
     "vamdc-count-radiative", "vamdc-count-atoms"}

DefaultHeaders ==
    << <<"vamdc-count-species", [int |-> 0]>>,
       <<"vamdc-count-states", [int |-> 0]>>,
       <<"vamdc-truncated", [int |-> 0]>>,
       <<"vamdc-count-molecules", [int |-> 0]>>,
       <<"vamdc-count-sources", [int |-> 0]>>,
       <<"vamdc-approx-size", [int |-> 0]>>,
       <<"vamdc-count-radiative", [int |-> 0]>>,
       <<"vamdc-count-atoms", [int |-> 0]>> >>

\* headers = ... : the list the loop stores, chosen by the status
HeadersFor(status, returned) ==
    IF status = 200 THEN returned ELSE DefaultHeaders

\* for key, value in headers: self.headers[key] = value
RECURSIVE StoreHeaders(_, _)
StoreHeaders(d, headers) ==
    IF headers = <<>> THEN d
    ELSE LET key == Head(headers)[1]
             value == Head(headers)[2]
         IN StoreHeaders([x \in DOMAIN d \cup {key} |->
                             IF x = key THEN value ELSE d[x]],
                         Tail(headers))

\* a response to HEAD; res.getheaders() is read for status 200 only, and
\* only then are the returned headers part of the event
HeadResponse(status, returned) ==
    [ev |-> "response", status |-> status, headers |-> returned]

\* a mapping that is created once and then kept
KeepHeaders(s) ==
    IF s.headers = Unset THEN [s EXCEPT !.headers = PyDict(EmptyMap)] ELSE s

\* self.headers = {}
ClearHeaders(s) == [s EXCEPT !.headers = PyDict(EmptyMap)]

doheadrequest(s, timeout) ==
    LET call == [ev |-> "call", op |-> "doheadrequest", timeout |-> timeout]
        s0 == ClearHeaders(s)
    IN IF UrlError(s0) # "none"
       THEN {Exit("doheadrequest", Res(s0, <<call>>, Raise(UrlError(s0))))}
       ELSE
       LET url == s0.baseurl.v \o s0.querypath.v
           sent == <<call, PutRequest("HEAD", url, timeout)>>
           Classify(status, returned) ==
               LET s1 == RecordStatus(s0, status)
                   stored == StoreHeaders(s1.headers.v,
                                          HeadersFor(status, returned))
               IN Res([s1 EXCEPT !.headers = PyDict(stored)],
                      Append(sent, HeadResponse(status, returned)),
                      Return(None))
       IN {Exit("doheadrequest", res) : res \in
              {After(sent, SendFailure(s0, snd)) : snd \in SendOutcomes \ {"ok"}}
              \cup {After(sent, ReceiveTimeout(s0))}
              \cup {Classify(200, returned) : returned \in HeaderLists}
              \cup {Classify(status, <<>>) : status \in Statuses \ {200}}}

(* ------------------------- getlastmodified ---------------------------- *)

\* dateutil's parse applied to a header value
parse(value) ==
    IF value = [str |-> GoodDate]
    THEN Return([k |-> "datetime", v |-> <<2026, 11, 3, 10, 0, 0>>])
    ELSE Raise("ParserError")

\* a refresh of a fresh session only
NeedsRefreshOnInit(s) == s.status = 0

\* if not self.status == 200
NeedsRefresh(s) == s.status # 200

\* NoContent for every status but 200
IsNoContentNot200(s) ==
    "last-modified" \notin DOMAIN s.headers.v /\ s.status # 200

\* no last-modified entry, and if self.status == 204
IsNoContent(s) ==
    "last-modified" \notin DOMAIN s.headers.v /\ s.status = 204

\* a line written by print
Printed(text, arg) == [ev |-> "print", text |-> text, arg |-> arg]

\* getlastmodified from its second statement on
ReadLastModified(s) ==
    IF s.headers = Unset
    THEN Res(s, <<>>, Raise("AttributeError"))
    ELSE
    LET present == "last-modified" \in DOMAIN s.headers.v
        parsed == parse(s.headers.v["last-modified"])
        s1 == IF present
              THEN IF parsed.kind = "return"
                   THEN [s EXCEPT !.lastmodified = parsed.val]
                   ELSE s
              ELSE [s EXCEPT !.lastmodified = None]
        printed == IF present /\ parsed.kind = "raise"
                   THEN <<Printed("Could not parse date",
                                  s.headers.v["last-modified"])>>
                   ELSE <<>>
    IN IF IsNoContent(s)
       THEN Res(s, <<>>, Raise("NoContentError"))
       ELSE IF s1.lastmodified = Unset
       THEN Res(s1, printed, Raise("AttributeError"))
       ELSE Res(s1, printed, Return(s1.lastmodified))

getlastmodified(s) ==
    LET call == [ev |-> "call", op |-> "getlastmodified", status |-> s.status]
    IN {Exit("getlastmodified", res) : res \in
           IF NeedsRefresh(s)
           THEN {IF head.out.kind = "raise"
                 THEN After(<<call>>, head)
                 ELSE After(<<call>> \o head.trace,
                            ReadLastModified(head.self)) :
                     head \in doheadrequest(s, TIMEOUT)}
           ELSE {After(<<call>>, ReadLastModified(s))}}

(* --------------------- do_species_data_request ------------------------ *)

SpeciesNodes == NodeInputs \cup {[k |-> "Node", url |-> None]}

SpeciesIds == {None, PyStr(<<"12">>), PyStr(<<"7", "-", "12">>), PyInt(12)}

VamdcSpeciesIds == {None, PyStr(<<"XYZ">>)}

Range(f) == {f[i] : i \in DOMAIN f}

\* the index of the first "-" of text, Len(text) + 1 if it has none
RECURSIVE FirstDash(_, _)
FirstDash(text, i) ==
    IF i > Len(text) \/ text[i] = "-" THEN i ELSE FirstDash(text, i + 1)

\* species_id.split('-')[1]
SplitSecond(text) ==
    LET rest == SubSeq(text, FirstDash(text, 1) + 1, Len(text))
    IN SubSeq(rest, 1, FirstDash(rest, 1) - 1)

\* "SELECT ALL WHERE SpeciesID=%s" % id
SpeciesQuery(id) ==
    <<"SELECT", " ", "ALL", " ", "WHERE", " ", "SpeciesID", "=">> \o id

\* "SELECT ALL WHERE VAMDCSpeciesID='%s'" % vamdcspecies_id
VamdcSpeciesQuery(id) ==
    <<"SELECT", " ", "ALL", " ", "WHERE", " ", "VAMDCSpeciesID", "=", "'">>
    \o id \o <<"'">>

\* request.setquery(query_string); result = request.dorequest()
QueryAndRequest(s, text) ==
    {After(<<[ev |-> "call", op |-> "setquery", query |-> text]>>, res) :
        res \in dorequest(setquery(s, PyStr(text)).self, TIMEOUT, "POST", TRUE)}

\* the body of the first try statement
FirstTry(s, species_id) ==
    IF species_id = None
    THEN {Res(s, <<>>, Return(None))}
    ELSE IF species_id.k # "str"
    THEN {Res(s, <<>>, Raise("TypeError"))}
    ELSE LET id == IF "-" \in Range(species_id.v)
                   THEN SplitSecond(species_id.v)
                   ELSE species_id.v
         IN {After(<<Printed("Processing", species_id)>>, res) :
                res \in QueryAndRequest(s, SpeciesQuery(id))}

\* a first handler that lets the failure through
FirstExceptPropagates(res) == res

\* except Exception of the first try statement: result = None
FirstExcept(res) ==
    IF res.out.kind = "raise"
    THEN Res(res.self,
             Append(res.trace, Printed("Query failed, try VamdcSpeciesID",
                                       res.out.exc)),
             Return(None))
    ELSE res

\* an alternate query whenever an alternate id is given
ShouldQueryVamdcSpeciesIdAlways(vamdcspecies_id, result) ==
    vamdcspecies_id # None

\* if vamdcspecies_id is not None and result is None
ShouldQueryVamdcSpeciesId(vamdcspecies_id, result) ==
    vamdcspecies_id # None /\ result = None

\* the body of the second try statement, after a first part that left
\* result = first.out.val
SecondTry(first, vamdcspecies_id) ==
    IF ShouldQueryVamdcSpeciesId(vamdcspecies_id, first.out.val)
    THEN {After(Append(first.trace, Printed("Processing", vamdcspecies_id)),
                res) :
             res \in QueryAndRequest(first.self,
                                     VamdcSpeciesQuery(vamdcspecies_id.v))}
    ELSE {first}

\* a second handler that lets the failure through
SecondExceptPropagates(res) == res

\* except Exception of the second try statement: return None
SecondExcept(res) ==
    IF res.out.kind = "raise"
    THEN Res(res.self, Append(res.trace, Printed("Query failed", res.out.exc)),
             Return(None))
    ELSE res

do_species_data_request(node, species_id, vamdcspecies_id) ==
    LET call == [ev |-> "call", op |-> "do_species_data_request",
                 node |-> node, species_id |-> species_id,
                 vamdcspecies_id |-> vamdcspecies_id]
        assigned == setnode(NewRequest, node)
        firsts == {FirstExcept(res) : res \in FirstTry(assigned.self, species_id)}
    IN {Exit("do_species_data_request", After(<<call>>, res)) : res \in
           IF assigned.out.kind = "raise"
           THEN {assigned}
           ELSE UNION {IF first.out.kind = "raise"
                       THEN {first}
                       ELSE {SecondExcept(second) :
                                second \in SecondTry(first, vamdcspecies_id)} :
                          first \in firsts}}

(* ----------------------------- Spec ----------------------------------- *)

Init ==
    /\ self = NewRequest
    /\ trace = <<>>
    /\ outcome = [op |-> "init", out |-> Return(None)]
    /\ args = <<>>
    /\ received = None

Apply(op, res) ==
    /\ self' = res.self
    /\ trace' = res.trace
    /\ outcome' = [op |-> op, out |-> res.out]
    /\ UNCHANGED <<args, received>>

\* a call of setnode, setbaseurl or setquery: its argument and the status
\* of the session at the moment of the call
Assign(op, arg, status) ==
    [ev |-> "call", op |-> op, arg |-> arg, status |-> status]

SetNode ==
    \E node \in NodeInputs :
        Apply("setnode", After(<<Assign("setnode", node, self.status)>>,
                               setnode(self, node)))

SetBaseUrl ==
    \E u \in Urls :
        Apply("setbaseurl", After(<<Assign("setbaseurl", u, self.status)>>,
                                  setbaseurl(self, u)))

SetQuery ==
    \E query \in QueryInputs :
        Apply("setquery", After(<<Assign("setquery", query, self.status)>>,
                                setquery(self, query)))

DoRequest ==
    \E timeout \in Timeouts, HttpMethod \in {"POST", "GET"},
       parsexsams \in BOOLEAN :
        \E res \in dorequest(self, timeout, HttpMethod, parsexsams) :
            Apply("dorequest", res)

DoHeadRequest ==
    \E timeout \in Timeouts :
        \E res \in doheadrequest(self, timeout) : Apply("doheadrequest", res)

GetLastModified ==
    \E res \in getlastmodified(self) : Apply("getlastmodified", res)

Next ==
    \/ SetNode
    \/ SetBaseUrl
    \/ SetQuery
    \/ DoRequest
    \/ DoHeadRequest
    \/ GetLastModified

Spec == Init /\ [][Next]_vars

\* the helper alone, applied to arguments drawn at the start: self is its
\* local request
InitSpecies ==
    /\ self = NewRequest
    /\ trace = <<>>
    /\ outcome = [op |-> "init", out |-> Return(None)]
    /\ args \in SpeciesNodes \X SpeciesIds \X VamdcSpeciesIds
    /\ received = None

DoSpeciesDataRequest ==
    \E res \in do_species_data_request(args[1], args[2], args[3]) :
        Apply("do_species_data_request", res)

NextSpecies == DoSpeciesDataRequest

SpecSpecies == InitSpecies /\ [][NextSpecies]_vars

\* the session with the history of its header mapping: the calls are made
\* with the defaults of their parameters

\* the positions of t where a HEAD request was put and answered
HeadAnswered(t) ==
    {i \in 1..(Len(t) - 1) :
        /\ t[i].ev = "putrequest" /\ t[i].HttpMethod = "HEAD"
        /\ t[i + 1].ev = "response"}

\* doheadrequest empties the mapping and fills it from the answer to the
\* url it requested; no other call writes the mapping
Received(old, t) ==
    IF \A i \in 1..Len(t) : ~(t[i].ev = "call" /\ t[i].op = "doheadrequest")
    THEN old
    ELSE IF HeadAnswered(t) = {}
    THEN None
    ELSE PyStr(t[CHOOSE i \in HeadAnswered(t) : TRUE].url)

ApplyHeaders(op, res) ==
    /\ self' = res.self
    /\ trace' = res.trace
    /\ outcome' = [op |-> op, out |-> res.out]
    /\ received' = Received(received, res.trace)
    /\ UNCHANGED args

\* the addresses of two nodes
HeaderUrls == {<<"http://n">>, <<"http://m", "/">>}

SetBaseUrlHeaders ==
    \E u \in HeaderUrls :
        ApplyHeaders("setbaseurl",
                     After(<<Assign("setbaseurl", u, self.status)>>,
                           setbaseurl(self, u)))

SetQueryHeaders ==
    \E query \in QueryInputs :
        ApplyHeaders("setquery",
                     After(<<Assign("setquery", query, self.status)>>,
                           setquery(self, query)))

DoRequestHeaders ==
    \E res \in dorequest(self, TIMEOUT, "POST", TRUE) :
        ApplyHeaders("dorequest", res)

DoHeadRequestHeaders ==
    \E res \in doheadrequest(self, TIMEOUT) : ApplyHeaders("doheadrequest", res)

GetLastModifiedHeaders ==
    \E res \in getlastmodified(self) : ApplyHeaders("getlastmodified", res)

NextHeaders ==
    \/ SetBaseUrlHeaders
    \/ SetQueryHeaders
    \/ DoRequestHeaders
    \/ DoHeadRequestHeaders
    \/ GetLastModifiedHeaders

SpecHeaders == Init /\ [][NextHeaders]_vars

(* ------------------------- reading a trace ---------------------------- *)

IsPutRequest(e) == e.ev = "putrequest"

PutRequests(t) == SelectSeq(t, IsPutRequest)

\* the positions of t that hold a socket timeout of the given phase
TimeoutsAt(t, phase) ==
    {i \in 1..Len(t) : t[i].ev = "socket.timeout" /\ t[i].phase = phase}

\* the positions of t where a call of op ends by raising
RaisesAt(t, op) ==
    {i \in 1..Len(t) :
        t[i].ev = "exit" /\ t[i].op = op /\ t[i].out.kind = "raise"}

CallsAt(t, op) == {i \in 1..Len(t) : t[i].ev = "call" /\ t[i].op = op}

(* ------------------------------ C1 ------------------------------------ *)

\* C1: in every dorequest call a 400 response to a POST is followed by
\* exactly one putrequest, a GET to the same url, issued after that response
\* and with no other request before it; a 400 response to a GET is followed
\* by no request; the call issues at most two requests.
C1_FallbackOnce ==
    outcome.op = "dorequest" =>
        /\ Len(PutRequests(trace)) <= 2
        /\ \A i \in 1..Len(trace) :
              (trace[i].ev = "response" /\ trace[i].status = 400) =>
                  LET request == trace[i - 1]
                      later == {j \in (i + 1)..Len(trace) :
                                   IsPutRequest(trace[j])}
                  IN /\ IsPutRequest(request)
                     /\ IF request.HttpMethod = "POST"
                        THEN /\ Cardinality(later) = 1
                             /\ Len(PutRequests(SubSeq(trace, 1, i))) = 1
                             /\ \A j \in later :
                                   /\ trace[j].HttpMethod = "GET"
                                   /\ trace[j].url = request.url
                        ELSE later = {}

\* a POST answered 400 whose fallback GET is answered 400 too
C1_Witness ==
    /\ outcome.op = "dorequest"
    /\ Len(PutRequests(trace)) = 2
    /\ \E i, j \in 1..Len(trace) :
          /\ i < j
          /\ trace[i].ev = "response" /\ trace[i].status = 400
          /\ trace[j].ev = "response" /\ trace[j].status = 400
    /\ outcome.out = Return(None)

(* ------------------------------ C2 ------------------------------------ *)

\* C2: when the socket times out while dorequest or doheadrequest (also the
\* fallback GET, also the refresh of getlastmodified) awaits the response,
\* the session has status 408 and reason "Socket timeout" and the call
\* raises TimeOutError: it returns no value.
C2_ReceiveTimeoutRaises ==
    (/\ outcome.op \in {"dorequest", "doheadrequest", "getlastmodified"}
     /\ TimeoutsAt(trace, "receive") # {}) =>
        /\ self.status = 408
        /\ self.reason = "Socket timeout"
        /\ outcome.out = Raise("TimeOutError")

\* the fallback GET of a dorequest call timed out while awaiting the response
C2_Witness ==
    /\ outcome.op = "dorequest"
    /\ Len(PutRequests(trace)) = 2
    /\ TimeoutsAt(trace, "receive") # {}
    /\ outcome.out.kind = "raise"

(* ------------------------------ C3 ------------------------------------ *)

\* C3: a socket timeout while the request is sent (conn.endheaders) is
\* raised as TimeOutError as well and leaves the session with status 408.
C3_SendTimeoutRaisesTimeOutError ==
    (/\ outcome.op \in {"dorequest", "doheadrequest"}
     /\ TimeoutsAt(trace, "send") # {}) =>
        /\ self.status = 408
        /\ outcome.out = Raise("TimeOutError")

(* ------------------------------ C4 ------------------------------------ *)

IsSpeciesQuery(e) ==
    e.ev = "call" /\ e.op = "setquery" /\ "SpeciesID" \in Range(e.query)

IsVamdcSpeciesQuery(e) ==
    e.ev = "call" /\ e.op = "setquery" /\ "VAMDCSpeciesID" \in Range(e.query)

SpeciesQueriesAt(t) == {i \in 1..Len(t) : IsSpeciesQuery(t[i])}

VamdcSpeciesQueriesAt(t) == {i \in 1..Len(t) : IsVamdcSpeciesQuery(t[i])}

\* the last position of t that belongs to the first attempt
FirstEnd(t) ==
    IF VamdcSpeciesQueriesAt(t) = {} THEN Len(t)
    ELSE (CHOOSE i \in VamdcSpeciesQueriesAt(t) :
             \A j \in VamdcSpeciesQueriesAt(t) : i <= j) - 1

\* request.setnode(node) of the helper returned
NodeAssigned(t) == setnode(NewRequest, t[1].node).out.kind = "return"

\* the dorequest of the second attempt raised
SecondFailed(t) == \E i \in RaisesAt(t, "dorequest") : i > FirstEnd(t)

\* C4 as claimed: a failure of the final attempt (the query by
\* VAMDCSpeciesID) leaves do_species_data_request as a raised condition.
C4_FinalFailurePropagates ==
    (outcome.op = "do_species_data_request" /\ SecondFailed(trace)) =>
        outcome.out.kind = "raise"

\* C4 as amended: a failure of the final attempt is caught by the second
\* handler, which prints "Query failed" and returns None: the caller gets
\* the empty result and no condition.
C4_FinalFailureReturnsNone ==
    (outcome.op = "do_species_data_request" /\ SecondFailed(trace)) =>
        /\ outcome.out = Return(None)
        /\ trace[Len(trace) - 1].ev = "print"
        /\ trace[Len(trace) - 1].text = "Query failed"

\* the query by VAMDCSpeciesID timed out while awaiting the response
C4_Witness ==
    /\ outcome.op = "do_species_data_request"
    /\ SecondFailed(trace)
    /\ TimeoutsAt(trace, "receive") # {}
    /\ self.status = 408

(* ------------------------------ C5 ------------------------------------ *)

\* C5: with base address and query path set, getlastmodified returns a
\* timestamp or None, or raises NoContentError or a timeout of the refresh
\* (TimeOutError, or the socket's own timeout), and nothing else.
C5_DefinedOutcomesOnly ==
    (/\ outcome.op = "getlastmodified"
     /\ self.baseurl # None
     /\ self.querypath # Unset) =>
        \/ outcome.out.kind = "return" /\ outcome.out.val = None
        \/ outcome.out.kind = "return" /\ outcome.out.val.k = "datetime"
        \/ outcome.out = Raise("NoContentError")
        \/ outcome.out = Raise("TimeOutError")
        \/ outcome.out = Raise("socket.timeout")

(* ------------------------------ C6 ------------------------------------ *)

\* C6: getlastmodified calls doheadrequest if and only if the status of the
\* session at the moment of the call is not 200.
C6_RefreshIffNot200 ==
    outcome.op = "getlastmodified" =>
        ((CallsAt(trace, "doheadrequest") # {}) <=> (trace[1].status # 200))

\* a call with a status that is neither 0 nor 200, which refreshed
C6_Witness ==
    /\ outcome.op = "getlastmodified"
    /\ trace[1].status \in {204, 400, 408}
    /\ CallsAt(trace, "doheadrequest") # {}

(* ------------------------------ C7 ------------------------------------ *)

ResponsesAt(t) == {i \in 1..Len(t) : t[i].ev = "response"}

\* the position of the last header named key in a list of headers
LastNamed(headers, key) ==
    CHOOSE i \in 1..Len(headers) :
        /\ headers[i][1] = key
        /\ \A j \in (i + 1)..Len(headers) : headers[j][1] # key

\* C7: after a HEAD transaction that was answered, the header mapping is
\* decided by the status: for 200 its keys are the names of the returned
\* headers and each holds the value returned for it (the last one, if a name
\* is returned twice); for any other status its keys are exactly the eight
\* metadata keys and each holds 0.
C7_HeadersByStatus ==
    (/\ outcome.op \in {"doheadrequest", "getlastmodified"}
     /\ ResponsesAt(trace) # {}) =>
        \A i \in ResponsesAt(trace) :
            LET returned == trace[i].headers
                names == {returned[n][1] : n \in 1..Len(returned)}
            IN /\ self.status = trace[i].status
               /\ self.headers # Unset
               /\ IF self.status = 200
                  THEN /\ DOMAIN self.headers.v = names
                       /\ \A key \in names :
                             self.headers.v[key] =
                                 returned[LastNamed(returned, key)][2]
                  ELSE /\ DOMAIN self.headers.v = MetadataKeys
                       /\ \A key \in MetadataKeys :
                             self.headers.v[key] = [int |-> 0]

\* a HEAD answered 200 with two headers, one of them last-modified
C7_Witness ==
    /\ outcome.op = "doheadrequest"
    /\ outcome.out.kind = "return"
    /\ self.status = 200
    /\ self.headers # Unset
    /\ "last-modified" \in DOMAIN self.headers.v
    /\ Cardinality(DOMAIN self.headers.v) = 2

(* ------------------------------ C8 ------------------------------------ *)

\* the test 'last-modified' in self.headers was made and was false
EntryMissing ==
    /\ RaisesAt(trace, "doheadrequest") = {}
    /\ self.headers # Unset
    /\ "last-modified" \notin DOMAIN self.headers.v

FirstResult(t) ==
    \E i \in 1..FirstEnd(t) :
        /\ t[i].ev = "exit" /\ t[i].op = "dorequest"
        /\ t[i].out.kind = "return" /\ t[i].out.val # None

\* C9: once the node is assigned, do_species_data_request sets and requests
\* the query by VAMDCSpeciesID if and only if an alternate id was given and
\* the first attempt left no result; it does so at most once, with the query
\* SELECT ALL WHERE VAMDCSpeciesID='<id>'; after a first result no further
\* request is issued; without a species id no query by SpeciesID is set.
C9_AlternateIffNoResult ==
    (outcome.op = "do_species_data_request" /\ NodeAssigned(trace)) =>
        LET call == trace[1]
            alternate == VamdcSpeciesQueriesAt(trace)
        IN /\ (alternate # {})
                  <=> (call.vamdcspecies_id # None /\ ~FirstResult(trace))
           /\ Cardinality(alternate) <= 1
           /\ \A i \in alternate :
                 /\ trace[i].query = VamdcSpeciesQuery(call.vamdcspecies_id.v)
                 /\ trace[i + 1].ev = "call" /\ trace[i + 1].op = "dorequest"
           /\ FirstResult(trace) =>
                 \A i \in 1..Len(trace) :
                     IsPutRequest(trace[i]) => i <= FirstEnd(trace)
           /\ call.species_id = None =>
                 /\ SpeciesQueriesAt(trace) = {}
                 /\ \A i \in 1..Len(trace) :
                       IsPutRequest(trace[i]) => i > FirstEnd(trace)

\* only the alternate id is given: one query, by VAMDCSpeciesID, is sent
C9_Witness ==
    /\ outcome.op = "do_species_data_request"
    /\ trace[1].species_id = None
    /\ VamdcSpeciesQueriesAt(trace) # {}
    /\ Len(PutRequests(trace)) = 1
    /\ outcome.out.kind = "return" /\ outcome.out.val # None

(* ------------------------------ C10 ----------------------------------- *)

\* the first try statement raised: its dorequest did, or the test
\* '-' in species_id did
FirstFailed(t) ==
    \/ \E i \in RaisesAt(t, "dorequest") : i <= FirstEnd(t)
    \/ NodeAssigned(t) /\ t[1].species_id.k = "int"

\* C10: a failure of the first attempt is not propagated: the function goes
\* on with no result, so it queries by VAMDCSpeciesID if that id is given
\* and returns None if it is not.
C10_FirstFailureSwallowed ==
    (outcome.op = "do_species_data_request" /\ FirstFailed(trace)) =>
        /\ outcome.out.kind = "return"
        /\ trace[1].vamdcspecies_id # None =>
               VamdcSpeciesQueriesAt(trace) # {}
        /\ trace[1].vamdcspecies_id = None => outcome.out = Return(None)

\* the query by SpeciesID timed out and the query by VAMDCSpeciesID
\* delivered the result
C10_Witness ==
    /\ outcome.op = "do_species_data_request"
    /\ \E i \in TimeoutsAt(trace, "receive") : i <= FirstEnd(trace)
    /\ VamdcSpeciesQueriesAt(trace) # {}
    /\ outcome.out.kind = "return" /\ outcome.out.val # None

(* ------------------------------ C11 ----------------------------------- *)

\* a node reference whose base address is empty or missing
HasNoAddress(n) ==
    \/ n.k = "object"
    \/ n.k = "Node" /\ n.url # None /\ n.url.v = <<>>

\* C11: a dorequest or doheadrequest that directly follows a setnode given a
\* node with an empty or missing base address opens no connection and sends
\* no request, whatever was assigned to the session before.
C11_EmptyNodeNeverTransmits ==
    [][(/\ outcome.op = "setnode"
        /\ HasNoAddress(trace[1].arg)
        /\ outcome'.op \in {"dorequest", "doheadrequest"}) =>
           PutRequests(trace') = <<>>]_vars

(* ------------------------------ C12 ----------------------------------- *)

\* the trailing-slash rule applied to any address b
WithSuffix(b) ==
    IF b # <<>> /\ b[Len(b)] = "/"
    THEN b \o <<"sync?">>
    ELSE b \o <<"/", "sync?">>

\* C12: a call of setbaseurl(b) leaves the base address b with the suffix
\* appended once by the trailing-slash rule, and so does a setnode that
\* returns for a node whose address b is not empty; every other call (a
\* setquery, a setnode without an address to assign, a request) leaves the
\* base address as it was.
C12_SuffixOnce ==
    [][IF outcome'.op = "setbaseurl"
       THEN self'.baseurl = PyStr(WithSuffix(trace'[1].arg))
       ELSE IF /\ outcome'.op = "setnode"
               /\ outcome'.out.kind = "return"
               /\ ~HasNoAddress(self'.node)
       THEN self'.baseurl = PyStr(WithSuffix(self'.node.url.v))
       ELSE self'.baseurl = self.baseurl]_vars

(* ------------------------------ C13 ----------------------------------- *)

\* the position of the last response of t
LastResponse(t) ==
    CHOOSE i \in ResponsesAt(t) : \A j \in ResponsesAt(t) : j <= i

\* C13: when dorequest returns, the status and the reason of the session
\* are those of the last response it received (the GET's after a fallback),
\* and it returns None exactly when that status is not 200.
C13_ReturnByLastStatus ==
    (outcome.op = "dorequest" /\ outcome.out.kind = "return") =>
        /\ ResponsesAt(trace) # {}
        /\ LET status == trace[LastResponse(trace)].status
           IN /\ self.status = status
              /\ self.reason = ReasonOf(status)
              /\ (outcome.out.val = None) <=> (status # 200)

\* a POST answered 400 whose fallback GET is answered 200: the session
\* shows 200 and the result is returned
C13_Witness ==
    /\ outcome.op = "dorequest"
    /\ outcome.out.kind = "return"
    /\ Len(PutRequests(trace)) = 2
    /\ \E i \in ResponsesAt(trace) : trace[i].status = 400
    /\ self.status = 200
    /\ outcome.out.val # None

(* ------------------------------ C14 ----------------------------------- *)

\* the date parser rejected the last-modified entry during the call
ParseFailed(t) ==
    \E i \in 1..Len(t) :
        t[i].ev = "print" /\ t[i].text = "Could not parse date"

\* C14: when the date parser rejects the last-modified entry,
\* getlastmodified does not raise and reports no timestamp: it returns None,
\* whether or not an earlier call had stored a timestamp.
C14_ParseFailureReportsNothing ==
    (outcome.op = "getlastmodified" /\ ParseFailed(trace)) =>
        outcome.out = Return(None)

(* ------------------------------ C15 ----------------------------------- *)

\* C15: after every call of setnode or setquery, whatever the status was
\* before, whatever the argument, and also when setnode raises, the session
\* has status 0 and reason "INIT", and a getlastmodified called next
\* performs a refresh.
C15_AssignmentResetsStatus ==
    outcome.op \in {"setnode", "setquery"} =>
        /\ self.status = 0
        /\ self.reason = "INIT"
        /\ \A res \in getlastmodified(self) :
              CallsAt(res.trace, "doheadrequest") # {}

\* setquery was given a value of an unrecognized type on a session whose
\* status was 200
C15_Witness ==
    /\ outcome.op = "setquery"
    /\ trace[1].arg = PyInt(7)
    /\ trace[1].status = 200
    /\ self.status = 0

(* ------------------------------ C16 ----------------------------------- *)

\* a value that is neither a query descriptor nor a string
Unrecognized(query) == query.k \notin {"Query", "str"}

\* C16: a setquery given an unrecognized value returns without raising and
\* leaves the query descriptor, the query path and the base address of the
\* session as they were; a dorequest that follows it sends its requests to
\* the base address and query path assigned before, and sends one if both
\* were assigned.
C16_UnrecognizedQueryIgnored ==
    [][/\ (outcome'.op = "setquery" /\ Unrecognized(trace'[1].arg)) =>
              /\ outcome'.out = Return(None)
              /\ self'.query = self.query
              /\ self'.querypath = self.querypath
              /\ self'.baseurl = self.baseurl
       /\ (/\ outcome.op = "setquery"
           /\ Unrecognized(trace[1].arg)
           /\ outcome'.op = "dorequest") =>
              IF self.querypath = Unset \/ self.baseurl = None
              THEN PutRequests(trace') = <<>>
              ELSE /\ PutRequests(trace') # <<>>
                   /\ \A i \in 1..Len(trace') :
                         IsPutRequest(trace'[i]) =>
                             trace'[i].url = self.baseurl.v \o self.querypath.v]_vars

\* setquery was given an unrecognized value on a session that has a base
\* address and the path of an earlier query
C16_Witness ==
    /\ outcome.op = "setquery"
    /\ Unrecognized(trace[1].arg)
    /\ outcome.out = Return(None)
    /\ self.baseurl # None
    /\ self.querypath # Unset
    /\ self.query.Query = TextB

(* ------------------------------ C17 ----------------------------------- *)

\* C17: a timestamp returned by getlastmodified is the parse of the
\* last-modified entry of the header mapping, and that mapping was received
\* in a HEAD transaction for the url the session has now: its base address
\* followed by its query path.
C17_TimestampOfCurrentQuery ==
    (/\ outcome.op = "getlastmodified"
     /\ outcome.out.kind = "return"
     /\ outcome.out.val # None) =>
        /\ "last-modified" \in DOMAIN self.headers.v
        /\ parse(self.headers.v["last-modified"]) = Return(outcome.out.val)
        /\ received = PyStr(self.baseurl.v \o self.querypath.v)

(* ------------------------------ C18 ----------------------------------- *)

\* the positions of t where a request is put on a connection
PutRequestsAt(t) == {i \in 1..Len(t) : IsPutRequest(t[i])}

\* C18: when dorequest falls back, the nested call is made with method GET,
\* with the parsexsams flag of the outer call and with settings.TIMEOUT,
\* whatever timeout the caller passed; its request goes to the url of the
\* POST on a connection created with settings.TIMEOUT.
C18_FallbackUsesDefaultTimeout ==
    outcome.op = "dorequest" =>
        \A i \in CallsAt(trace, "dorequest") :
            i > 1 =>
                /\ trace[i].HttpMethod = "GET"
                /\ trace[i].parsexsams = trace[1].parsexsams
                /\ trace[i].timeout = TIMEOUT
                /\ \A j \in PutRequestsAt(trace) :
                      IF j < i
                      THEN /\ trace[j].HttpMethod = "POST"
                           /\ trace[j].timeout = trace[1].timeout
                      ELSE /\ trace[j].HttpMethod = "GET"
                           /\ trace[j].timeout = TIMEOUT
                           /\ \E k \in PutRequestsAt(trace) :
                                 k < i /\ trace[k].url = trace[j].url

\* the caller passed its own timeout and parsexsams = False, and the
\* fallback GET was sent
C18_Witness ==
    /\ outcome.op = "dorequest"
    /\ trace[1].timeout = CallerTimeout
    /\ trace[1].parsexsams = FALSE
    /\ \E j \in PutRequestsAt(trace) :
          trace[j].HttpMethod = "GET" /\ trace[j].timeout = TIMEOUT

====
